---- MODULE Spec2Model ----
(***************************************************************************)
(* Model of the SQS batch processor of src/functions/dlq-demo.ts           *)
(* (processRecord, handler) and of the queue / dead-letter queue wiring    *)
(* declared in the SAM template (src/unnamed/part_001).                    *)
(*                                                                         *)
(* HandlerSpec  : one handler invocation on an arbitrary batch.            *)
(* QueueSpec    : the source queue, the Lambda event source mapping with   *)
(*                ReportBatchItemFailures, the handler and the redrive to  *)
(*                the dead-letter queue.                                   *)
(* Fair*Spec    : the same with the fairness of the Node.js event loop     *)
(*                (ready continuations and timers run) and of the poller.  *)
(***************************************************************************)
EXTENDS Integers, Sequences, FiniteSets, TLC

\* ------------------------------------------------------------------ bounds
MaxBatch == 3          \* longest batch handed to one invocation (HandlerSpec)
NumMsgs == 2           \* messages sent to the source queue (QueueSpec)

\* ------------------------------------------------------- program constants
MaxReceiveCount == 3   \* RedrivePolicy.maxReceiveCount
BatchSize == 10        \* SQSEvent.Properties.BatchSize

\* ------------------------------------------------------------ input values
\* messageId values given to the records, by position / by message number
MsgId == <<"m1", "m2", "m3", "m4", "m5", "m6">>

OkBody == "{\"type\":\"ok\"}"
BusinessBody == "{\"type\":\"business-error\"}"
TemporaryBody == "{\"type\":\"temporary-error\"}"
TimeoutBody == "{\"type\":\"timeout\"}"
EmptyObjectBody == "{}"
NullBody == "null"
BadBody == "not json"

\* record.body values the model feeds to the handler
Bodies ==
  {OkBody, BusinessBody, TemporaryBody, TimeoutBody, EmptyObjectBody,
   NullBody, BadBody}

\* bodies of the messages put on the queue in QueueSpec
QueueBodies == Bodies

\* JSON.parse(record.body) on the bodies above: a SyntaxError for text that
\* is not JSON, the value null, or an object with its (possibly absent)
\* type property.
JSONParse(body) ==
  CASE body = OkBody -> [ok |-> TRUE, kind |-> "object", type |-> "ok"]
    [] body = BusinessBody ->
         [ok |-> TRUE, kind |-> "object", type |-> "business-error"]
    [] body = TemporaryBody ->
         [ok |-> TRUE, kind |-> "object", type |-> "temporary-error"]
    [] body = TimeoutBody ->
         [ok |-> TRUE, kind |-> "object", type |-> "timeout"]
    [] body = EmptyObjectBody ->
         [ok |-> TRUE, kind |-> "object", type |-> "undefined"]
    [] body = NullBody -> [ok |-> TRUE, kind |-> "null", type |-> "undefined"]
    [] OTHER -> [ok |-> FALSE, kind |-> "SyntaxError", type |-> "undefined"]

\* ------------------------------------------------------------------- state
VARIABLES
  batch,              \* event.Records of the running invocation
  pc,                 \* position of the handler
  promises,           \* processingPromises
  batchItemFailures,  \* the handler's result list
  logs,               \* the per-result console.log lines of the forEach
  msgBody,            \* body of each message of the source queue
  status,             \* where each message is
  receiveCount,       \* ApproximateReceiveCount of each message
  timesProcessed,     \* how often processRecord ran on each messageId
  everSucceeded       \* messageIds for which processRecord returned success

handlerVars == <<batch, pc, promises, batchItemFailures, logs>>
queueVars == <<msgBody, status, receiveCount>>
historyVars == <<timesProcessed, everSucceeded>>
vars ==
  <<batch, pc, promises, batchItemFailures, logs, msgBody, status,
    receiveCount, timesProcessed, everSucceeded>>

AllIds == {MsgId[i] : i \in 1..Len(MsgId)}
Msgs == {MsgId[i] : i \in 1..NumMsgs}

\* ----------------------------------------------------------- processRecord
\* ProcessingResult
Success(messageId) ==
  [success |-> TRUE, messageId |-> messageId, error |-> "none"]

Failure(messageId, error) ==
  [success |-> FALSE, messageId |-> messageId, error |-> error]

\* value slot of a promise that holds no ProcessingResult
NoResult == [success |-> FALSE, messageId |-> "undefined", error |-> "undefined"]

\* states of the promise an async function returns
Fulfilled(result) == [state |-> "fulfilled", value |-> result, reason |-> "none"]

Rejected(reason) == [state |-> "rejected", value |-> NoResult, reason |-> reason]

Pending == [state |-> "pending", value |-> NoResult, reason |-> "none"]

\* processRecord with the 'temporary-error' branch missing
processRecordNoTemporary(record) ==
  LET body == JSONParse(record.body) IN
  IF ~body.ok THEN Rejected("SyntaxError")
  ELSE IF body.kind = "null" THEN Fulfilled(Failure(record.messageId, "TypeError"))
  ELSE IF body.type = "business-error"
    THEN Fulfilled(Failure(record.messageId, "BusinessLogicError"))
  ELSE IF body.type = "timeout" THEN Pending
  ELSE Fulfilled(Success(record.messageId))

\* processRecord throwing a plain Error in the 'business-error' branch
processRecordBusinessAsError(record) ==
  LET body == JSONParse(record.body) IN
  IF ~body.ok THEN Rejected("SyntaxError")
  ELSE IF body.kind = "null" THEN Fulfilled(Failure(record.messageId, "TypeError"))
  ELSE IF body.type = "business-error"
    THEN Fulfilled(Failure(record.messageId, "Error"))
  ELSE IF body.type = "temporary-error"
    THEN Fulfilled(Failure(record.messageId, "TemporaryError"))
  ELSE IF body.type = "timeout" THEN Pending
  ELSE Fulfilled(Success(record.messageId))

\* processRecord up to its first suspension: the promise it hands back.
\* JSON.parse runs before the try block, so its SyntaxError rejects the
\* promise; reading .type of null throws a TypeError inside the try block,
\* which the catch turns into a failure result; 'timeout' suspends on the
\* timer.
processRecord(record) ==
  LET body == JSONParse(record.body) IN
  IF ~body.ok THEN Rejected("SyntaxError")
  ELSE IF body.kind = "null" THEN Fulfilled(Failure(record.messageId, "TypeError"))
  ELSE IF body.type = "business-error"
    THEN Fulfilled(Failure(record.messageId, "BusinessLogicError"))
  ELSE IF body.type = "temporary-error"
    THEN Fulfilled(Failure(record.messageId, "TemporaryError"))
  ELSE IF body.type = "timeout" THEN Pending
  ELSE Fulfilled(Success(record.messageId))

\* the 'timeout' branch without its throw: falls through to the success return
afterTimeoutNoThrow(record) == Fulfilled(Success(record.messageId))

\* processRecord after the 5000 ms timer: throws Error('Operation timed
\* out'), caught into a failure result
afterTimeout(record) == Fulfilled(Failure(record.messageId, "Error"))

\* ----------------------------------------------------------------- handler
\* the for loop leaving one record out
LoopDoneOffByOne(ps, records) == Len(ps) >= Len(records) - 1

\* the for loop over event.Records has pushed a promise for every record
LoopDone(ps, records) == Len(ps) = Len(records)

\* Promise.all rejects as soon as one of its promises is rejected
AnyRejected(ps) == \E i \in 1..Len(ps) : ps[i].state = "rejected"

\* a race: one fulfilled promise is enough
AllFulfilledRace(ps) == \E i \in 1..Len(ps) : ps[i].state = "fulfilled"

\* a join that waits for at least one result
AllFulfilledNonEmpty(ps) ==
  Len(ps) > 0 /\ \A i \in 1..Len(ps) : ps[i].state = "fulfilled"

\* Promise.all fulfils once every promise is fulfilled (at once for [])
AllFulfilled(ps) == \A i \in 1..Len(ps) : ps[i].state = "fulfilled"

\* results collected as the promises complete: the records that waited for
\* their timer come last
ResultsCompletionOrder(ps) ==
  SelectSeq([i \in 1..Len(ps) |-> ps[i].value], LAMBDA r : r.error # "Error")
    \o SelectSeq([i \in 1..Len(ps) |-> ps[i].value], LAMBDA r : r.error = "Error")

\* results of await Promise.all(processingPromises), in the promises' order
Results(ps) == [i \in 1..Len(ps) |-> ps[i].value]

\* the forEach with its test inverted
BuildFailuresInverted(results) ==
  LET failed == SelectSeq(results, LAMBDA r : r.success) IN
  [i \in 1..Len(failed) |-> [itemIdentifier |-> failed[i].messageId]]

\* the forEach losing its last failed entry
BuildFailuresDropLast(results) ==
  LET failed == SelectSeq(results, LAMBDA r : ~r.success) IN
  [i \in 1..(Len(failed) - 1) |-> [itemIdentifier |-> failed[i].messageId]]

\* results.forEach: one {itemIdentifier} per result with success = false
BuildFailures(results) ==
  LET failed == SelectSeq(results, LAMBDA r : ~r.success) IN
  [i \in 1..Len(failed) |-> [itemIdentifier |-> failed[i].messageId]]

\* the console.log line the forEach writes for one result
LogLine(result) ==
  IF ~result.success
    THEN IF result.error = "BusinessLogicError"
           THEN [messageId |-> result.messageId,
                 text |-> "Business logic error - will be sent to DLQ after max retries"]
         ELSE IF result.error = "TemporaryError"
           THEN [messageId |-> result.messageId,
                 text |-> "Temporary error - will retry"]
         ELSE [messageId |-> result.messageId,
               text |-> "Unknown error - will retry"]
  ELSE [messageId |-> result.messageId, text |-> "Successfully processed"]

BuildLogs(results) == [i \in 1..Len(results) |-> LogLine(results[i])]

\* one iteration of the for loop: processRecord(record) is called and its
\* promise pushed
LaunchRecord ==
  /\ pc = "launch"
  /\ ~LoopDone(promises, batch)
  /\ LET record == batch[Len(promises) + 1]
         p == processRecord(record)
     IN /\ promises' = Append(promises, p)
        /\ timesProcessed' =
             [timesProcessed EXCEPT ![record.messageId] = @ + 1]
        /\ everSucceeded' =
             IF p.state = "fulfilled" /\ p.value.success
               THEN everSucceeded \cup {record.messageId}
               ELSE everSucceeded
  /\ UNCHANGED <<batch, pc, batchItemFailures, logs, queueVars>>

\* the loop is over: the handler suspends on await Promise.all(...)
AwaitAll ==
  /\ pc = "launch"
  /\ LoopDone(promises, batch)
  /\ pc' = "await"
  /\ UNCHANGED <<batch, promises, batchItemFailures, logs, queueVars, historyVars>>

\* the setTimeout of a suspended 'timeout' record fires.  Timers run only
\* when no continuation is ready, so not while the handler still loops and
\* not before a rejection of Promise.all has resumed the handler.
TimerFire(i) ==
  /\ i \in 1..Len(promises)
  /\ promises[i].state = "pending"
  /\ (pc = "await" /\ ~AnyRejected(promises)) \/ pc = "rejected"
  /\ promises' = [promises EXCEPT ![i] = afterTimeout(batch[i])]
  /\ UNCHANGED <<batch, pc, batchItemFailures, logs, queueVars, historyVars>>

\* Promise.all fulfilled: the forEach builds the result and the handler
\* returns { batchItemFailures }
ResumeFulfilled ==
  /\ pc = "await"
  /\ ~AnyRejected(promises)
  /\ AllFulfilled(promises)
  /\ batchItemFailures' = BuildFailures(Results(promises))
  /\ logs' = BuildLogs(Results(promises))
  /\ pc' = "returned"
  /\ UNCHANGED <<batch, promises, queueVars, historyVars>>

\* Promise.all rejected: the await throws and the handler's promise rejects
ResumeRejected ==
  /\ pc = "await"
  /\ AnyRejected(promises)
  /\ pc' = "rejected"
  /\ UNCHANGED <<batch, promises, batchItemFailures, logs, queueVars, historyVars>>

HandlerStep == LaunchRecord \/ AwaitAll \/ ResumeFulfilled \/ ResumeRejected

Timers == \E i \in 1..Len(promises) : TimerFire(i)

\* ------------------------------------------------------------- HandlerSpec
\* event.Records: n records with messageIds m1..mn and any bodies
RecordsOf(bodies) ==
  [i \in 1..Len(bodies) |-> [messageId |-> MsgId[i], body |-> bodies[i]]]

Batches == UNION {[1..n -> Bodies] : n \in 0..MaxBatch}

\* the runtime calls handler(event, context)
Invoke ==
  /\ pc = "idle"
  /\ \E bodies \in Batches : batch' = RecordsOf(bodies)
  /\ pc' = "launch"
  /\ promises' = <<>>
  /\ batchItemFailures' = <<>>
  /\ logs' = <<>>
  /\ UNCHANGED <<queueVars, historyVars>>

HandlerInit ==
  /\ batch = <<>>
  /\ pc = "idle"
  /\ promises = <<>>
  /\ batchItemFailures = <<>>
  /\ logs = <<>>
  /\ msgBody = [m \in Msgs |-> OkBody]
  /\ status = [m \in Msgs |-> "consumed"]
  /\ receiveCount = [m \in Msgs |-> 0]
  /\ timesProcessed = [id \in AllIds |-> 0]
  /\ everSucceeded = {}

HandlerNext == Invoke \/ LaunchRecord \/ AwaitAll \/ Timers \/ ResumeFulfilled \/ ResumeRejected

HandlerSpec == HandlerInit /\ [][HandlerNext]_vars

\* the event loop runs every ready continuation and every due timer
FairHandlerSpec ==
  /\ HandlerSpec
  /\ WF_vars(LaunchRecord)
  /\ WF_vars(AwaitAll)
  /\ WF_vars(ResumeFulfilled)
  /\ WF_vars(ResumeRejected)
  /\ WF_vars(Timers)

\* --------------------------------------------------------------- QueueSpec
Min(a, b) == IF a <= b THEN a ELSE b

\* a message the source queue can still hand out: visible, and this receive
\* would not take its receive count past maxReceiveCount
Receivable(m) == status[m] = "visible" /\ receiveCount[m] < MaxReceiveCount

\* the batches the poller can build: up to BatchSize distinct receivable
\* messages, in any order
ReceivableBatches ==
  {ms \in UNION {[1..n -> Msgs] : n \in 1..Min(NumMsgs, BatchSize)} :
     /\ \A i \in 1..Len(ms) : Receivable(ms[i])
     /\ \A i, j \in 1..Len(ms) : ms[i] = ms[j] => i = j}

\* the event source mapping receives a batch (each receive counts) and
\* invokes the handler with it
Receive ==
  /\ pc = "idle"
  /\ \E ms \in ReceivableBatches :
       /\ batch' = [i \in 1..Len(ms) |-> [messageId |-> ms[i], body |-> msgBody[ms[i]]]]
       /\ status' = [m \in Msgs |-> IF \E i \in 1..Len(ms) : ms[i] = m
                                      THEN "inflight" ELSE status[m]]
       /\ receiveCount' = [m \in Msgs |-> IF \E i \in 1..Len(ms) : ms[i] = m
                                            THEN receiveCount[m] + 1
                                            ELSE receiveCount[m]]
  /\ pc' = "launch"
  /\ promises' = <<>>
  /\ batchItemFailures' = <<>>
  /\ logs' = <<>>
  /\ UNCHANGED <<msgBody, historyVars>>

\* RedrivePolicy: the receive that takes a message's receive count past
\* maxReceiveCount moves it to the dead-letter queue instead of delivering it
MoveToDLQ(m) ==
  /\ status[m] = "visible"
  /\ receiveCount[m] >= MaxReceiveCount
  /\ receiveCount' = [receiveCount EXCEPT ![m] = @ + 1]
  /\ status' = [status EXCEPT ![m] = "dlq"]
  /\ UNCHANGED <<handlerVars, msgBody, historyVars>>

Redrive == \E m \in Msgs : MoveToDLQ(m)

\* messageIds of the batch
BatchIds == {batch[i].messageId : i \in 1..Len(batch)}

\* itemIdentifiers of the result
FailedIds == {batchItemFailures[i].itemIdentifier : i \in 1..Len(batchItemFailures)}

\* FunctionResponseTypes ReportBatchItemFailures: after a returned result the
\* listed messages stay on the queue and the others are deleted; after a
\* rejected invocation the whole batch stays on the queue
Complete ==
  /\ pc \in {"returned", "rejected"}
  /\ status' = [m \in Msgs |->
                  IF m \notin BatchIds THEN status[m]
                  ELSE IF pc = "rejected" \/ m \in FailedIds THEN "visible"
                  ELSE "consumed"]
  /\ pc' = "idle"
  /\ batch' = <<>>
  /\ promises' = <<>>
  /\ batchItemFailures' = <<>>
  /\ logs' = <<>>
  /\ UNCHANGED <<msgBody, receiveCount, historyVars>>

QueueInit ==
  /\ batch = <<>>
  /\ pc = "idle"
  /\ promises = <<>>
  /\ batchItemFailures = <<>>
  /\ logs = <<>>
  /\ msgBody \in [Msgs -> QueueBodies]
  /\ status = [m \in Msgs |-> "visible"]
  /\ receiveCount = [m \in Msgs |-> 0]
  /\ timesProcessed = [id \in AllIds |-> 0]
  /\ everSucceeded = {}

QueueNext ==
  \/ Receive
  \/ Redrive
  \/ Complete
  \/ LaunchRecord
  \/ AwaitAll
  \/ Timers
  \/ ResumeFulfilled
  \/ ResumeRejected

QueueSpec == QueueInit /\ [][QueueNext]_vars

\* the poller keeps polling, the queue applies its redrive policy, and the
\* event loop runs every ready continuation and every due timer
FairQueueSpec ==
  /\ QueueSpec
  /\ WF_vars(Receive)
  /\ WF_vars(Redrive)
  /\ WF_vars(Complete)
  /\ WF_vars(LaunchRecord)
  /\ WF_vars(AwaitAll)
  /\ WF_vars(ResumeFulfilled)
  /\ WF_vars(ResumeRejected)
  /\ WF_vars(Timers)

\* ------------------------------------------------------------------ claims
\* bodies that are JSON objects
ObjectBodies == {OkBody, BusinessBody, TemporaryBody, TimeoutBody, EmptyObjectBody}

\* bodies whose type is 'business-error', 'temporary-error' or 'timeout'
ErrorTypeBodies == {BusinessBody, TemporaryBody, TimeoutBody}

\* bodies that text-parse as JSON
ParsableBodies == ObjectBodies \cup {NullBody}

\* bodies whose processing yields a failure outcome on every delivery
AlwaysFailingBodies == {BusinessBody, TemporaryBody, TimeoutBody, NullBody}

Finished == pc \in {"returned", "rejected"}

PositionsOf(bodies) == {i \in 1..Len(batch) : batch[i].body \in bodies}

\* messageIds of the batch whose processRecord outcome has success = true
SucceededIds ==
  {batch[i].messageId : i \in {j \in 1..Len(promises) :
     promises[j].state = "fulfilled" /\ promises[j].value.success}}

\* C1: in every returned result the itemIdentifiers are messageIds of the
\* batch, and the messageIds not listed are exactly those whose processRecord
\* outcome had success = true.
C1_FailedIsComplementOfSucceeded ==
  pc = "returned" =>
    /\ FailedIds \subseteq BatchIds
    /\ BatchIds \ FailedIds = SucceededIds

C1_Witness ==
  /\ pc = "returned"
  /\ Len(batch) = MaxBatch
  /\ FailedIds # {}
  /\ FailedIds # BatchIds

\* C2 (as claimed): a finished invocation on a batch holding a record whose
\* body is not JSON has returned a result that lists that record's messageId.
C2_Original ==
  (Finished /\ PositionsOf({BadBody}) # {}) =>
    /\ pc = "returned"
    /\ \A i \in PositionsOf({BadBody}) : batch[i].messageId \in FailedIds

\* C3 (as claimed): no processRecord promise is ever rejected and the handler
\* never rejects.
C3_Original ==
  /\ pc # "rejected"
  /\ \A i \in 1..Len(promises) : promises[i].state # "rejected"

\* C4 (as claimed): a message whose processing succeeded is in flight in that
\* invocation and consumed afterwards; it never becomes visible again and
\* never reaches the dead-letter queue.
C4_Original ==
  \A m \in Msgs : m \in everSucceeded => status[m] \in {"inflight", "consumed"}

\* C5: when every body of the batch is a JSON object the handler does not
\* reject, and a returned result lists a record iff the type of its body is
\* 'business-error', 'temporary-error' or 'timeout'; the batch
\* [ok, business-error, temporary-error] reports exactly m2 and m3.
C5_FailedIffErrorType ==
  (\A i \in 1..Len(batch) : batch[i].body \in ObjectBodies) =>
    /\ pc # "rejected"
    /\ pc = "returned" =>
         /\ \A i \in 1..Len(batch) :
              batch[i].messageId \in FailedIds <=> batch[i].body \in ErrorTypeBodies
         /\ batch = RecordsOf(<<OkBody, BusinessBody, TemporaryBody>>) =>
              batchItemFailures =
                <<[itemIdentifier |-> "m2"], [itemIdentifier |-> "m3"]>>

C5_Witness ==
  /\ pc = "returned"
  /\ batch = RecordsOf(<<OkBody, BusinessBody, TemporaryBody>>)
  /\ batchItemFailures = <<[itemIdentifier |-> "m2"], [itemIdentifier |-> "m3"]>>

\* C6 (as claimed): a message that fails on every delivery is reported as
\* failed by the handler on each delivery (every finished invocation on a
\* batch holding it has returned a result that lists it), is never consumed,
\* is processed at most maxReceiveCount times, and is in the dead-letter
\* queue exactly when its receive count exceeds maxReceiveCount.
C6_Original ==
  \A m \in Msgs : msgBody[m] \in AlwaysFailingBodies \cup {BadBody} =>
    /\ (Finished /\ m \in BatchIds) => (pc = "returned" /\ m \in FailedIds)
    /\ status[m] # "consumed"
    /\ timesProcessed[m] <= MaxReceiveCount
    /\ status[m] = "dlq" <=> receiveCount[m] > MaxReceiveCount

\* C7: the processing of every 'timeout' record eventually completes with a
\* failure outcome (Error 'Operation timed out'), and an invocation on a
\* batch holding such a record eventually finishes: by returning a result
\* that lists the record when every body of the batch parses, by rejecting
\* otherwise.
C7_TimeoutTerminates ==
  /\ \A i \in 1..MaxBatch :
       (pc = "launch" /\ i \in PositionsOf({TimeoutBody}))
         ~> (/\ i \in 1..Len(promises)
             /\ promises[i] = Fulfilled(Failure(MsgId[i], "Error")))
  /\ (pc = "launch" /\ PositionsOf({TimeoutBody}) # {}) ~> Finished
  /\ (/\ pc = "launch"
      /\ PositionsOf({TimeoutBody}) # {}
      /\ PositionsOf({BadBody}) = {})
       ~> (/\ pc = "returned"
           /\ \A i \in PositionsOf({TimeoutBody}) : batch[i].messageId \in FailedIds)

C7_Witness ==
  /\ pc = "returned"
  /\ Len(batch) >= 2
  /\ \E i \in PositionsOf({TimeoutBody}) :
       /\ promises[i] = Fulfilled(Failure(batch[i].messageId, "Error"))
       /\ batch[i].messageId \in FailedIds

\* C8: once the handler awaits, processRecord has been started for every
\* record; and only a 'timeout' record is ever pending, so every sibling's
\* outcome is there while the timeout record still waits for its timer.
C8_AllStartedSiblingsNeverWait ==
  /\ pc \in {"await", "returned", "rejected"} => Len(promises) = Len(batch)
  /\ \A i \in 1..Len(promises) :
       promises[i].state = "pending" => batch[i].body = TimeoutBody
  /\ \A i \in 1..Len(promises) :
       batch[i].body \in ParsableBodies \ {TimeoutBody} =>
         /\ promises[i].state = "fulfilled"
         /\ promises[i].value.messageId = batch[i].messageId

C8_Witness ==
  /\ pc = "await"
  /\ Len(batch) = MaxBatch
  /\ batch[1].body = TimeoutBody
  /\ promises[1].state = "pending"
  /\ \A i \in 2..Len(batch) : promises[i].state = "fulfilled"

\* C9: whenever the result holds an entry or the handler has returned, the
\* processing of every record of the batch has completed.
C9_JoinBeforeResult ==
  (batchItemFailures # <<>> \/ pc = "returned") =>
    /\ Len(promises) = Len(batch)
    /\ \A i \in 1..Len(promises) : promises[i].state = "fulfilled"

C9_Witness ==
  /\ pc = "returned"
  /\ Len(batch) >= 2
  /\ PositionsOf({TimeoutBody}) # {}
  /\ batchItemFailures # <<>>

\* C10: an invocation on the empty batch never rejects and returns an empty
\* batchItemFailures list.
C10_EmptyBatch ==
  /\ [](batch = <<>> => pc # "rejected")
  /\ (pc = "launch" /\ batch = <<>>)
       ~> (pc = "returned" /\ batch = <<>> /\ batchItemFailures = <<>>)

C10_Witness ==
  /\ pc = "returned"
  /\ batch = <<>>
  /\ batchItemFailures = <<>>

BusinessText == "Business logic error - will be sent to DLQ after max retries"

TemporaryText == "Temporary error - will retry"

UnknownText == "Unknown error - will retry"

SuccessText == "Successfully processed"

\* C11: on every delivery, whatever its receive count, its earlier
\* deliveries and its siblings in the batch, a 'business-error' record gets
\* the failure outcome carrying a BusinessLogicError as soon as it is
\* processed, and every returned invocation classifies it as the business
\* logic error.
C11_BusinessErrorDeterministic ==
  /\ \A i \in 1..Len(promises) :
       batch[i].body = BusinessBody =>
         promises[i] = Fulfilled(Failure(batch[i].messageId, "BusinessLogicError"))
  /\ pc = "returned" =>
       \A i \in PositionsOf({BusinessBody}) :
         logs[i] = [messageId |-> batch[i].messageId, text |-> BusinessText]

C11_Witness ==
  /\ pc = "returned"
  /\ Len(batch) = 2
  /\ \E i \in PositionsOf({BusinessBody}) :
       /\ receiveCount[batch[i].messageId] = MaxReceiveCount
       /\ timesProcessed[batch[i].messageId] = MaxReceiveCount
       /\ promises[i] = Fulfilled(Failure(batch[i].messageId, "BusinessLogicError"))

\* positions of the batch whose outcome is there and has success = false
FailedPositions ==
  {i \in 1..Len(promises) :
     promises[i].state = "fulfilled" /\ ~promises[i].value.success}

\* position of a messageId in the batch
PositionOfId(id) == CHOOSE i \in 1..Len(batch) : batch[i].messageId = id

\* C12 (as claimed): when an invocation has finished every record of the
\* batch has produced its one outcome, and batchItemFailures holds exactly
\* one entry per unsuccessful outcome: no identifier twice, none omitted, as
\* many entries as failed records.
C12_Original ==
  Finished =>
    /\ Len(promises) = Len(batch)
    /\ \A i \in 1..Len(promises) :
         /\ promises[i].state = "fulfilled"
         /\ promises[i].value.messageId = batch[i].messageId
    /\ Len(batchItemFailures) = Cardinality(FailedPositions)
    /\ FailedIds = {batch[i].messageId : i \in FailedPositions}
    /\ \A j, k \in 1..Len(batchItemFailures) :
         batchItemFailures[j] = batchItemFailures[k] => j = k

\* C13 (as claimed): when an invocation has finished every record has its
\* one classification: a BusinessLogicError the 'will be sent to DLQ after
\* max retries' line, a TemporaryError the 'will retry' line, every other
\* fault (the operation timeout, a malformed payload) the unknown 'will
\* retry' line, and a successful record none of the three.
C13_Original ==
  Finished =>
    /\ Len(logs) = Len(batch)
    /\ \A i \in 1..Len(batch) :
         /\ logs[i].messageId = batch[i].messageId
         /\ batch[i].body = BusinessBody <=> logs[i].text = BusinessText
         /\ batch[i].body = TemporaryBody <=> logs[i].text = TemporaryText
         /\ batch[i].body \in {TimeoutBody, NullBody, BadBody}
              <=> logs[i].text = UnknownText
         /\ batch[i].body \in {OkBody, EmptyObjectBody}
              <=> logs[i].text = SuccessText

\* C14: the entries of a returned batchItemFailures are in the order of the
\* records in the batch (a subsequence of the batch's messageIds), also when
\* an earlier 'timeout' record completed after later records.
C14_FailuresInBatchOrder ==
  pc = "returned" =>
    /\ FailedIds \subseteq BatchIds
    /\ \A j, k \in 1..Len(batchItemFailures) :
         j < k => PositionOfId(batchItemFailures[j].itemIdentifier)
                    < PositionOfId(batchItemFailures[k].itemIdentifier)

C14_Witness ==
  /\ pc = "returned"
  /\ Len(batch) = MaxBatch
  /\ batch[1].body = TimeoutBody
  /\ batch[2].body = BusinessBody
  /\ batchItemFailures[1].itemIdentifier = batch[1].messageId
  /\ batchItemFailures[2].itemIdentifier = batch[2].messageId

\* C15: every message is in one place: on the source queue (visible, or in
\* flight exactly when it is in the running batch, once) with a receive
\* count of at most maxReceiveCount, consumed and then after a successful
\* processing, or in the dead-letter queue with its receive count past
\* maxReceiveCount.
C15_NoLossNoDuplication ==
  /\ BatchIds \subseteq Msgs
  /\ \A m \in Msgs :
       /\ status[m] \in {"visible", "inflight", "consumed", "dlq"}
       /\ status[m] \in {"visible", "inflight"} => receiveCount[m] <= MaxReceiveCount
       /\ status[m] = "inflight" <=> m \in BatchIds
       /\ Cardinality({i \in 1..Len(batch) : batch[i].messageId = m}) <= 1
       /\ status[m] = "consumed" => m \in everSucceeded
       /\ status[m] = "dlq" <=> receiveCount[m] > MaxReceiveCount
       /\ timesProcessed[m] <= receiveCount[m]

C15_Witness ==
  /\ pc = "idle"
  /\ \E m \in Msgs : status[m] = "consumed" /\ timesProcessed[m] = 1
  /\ \E m \in Msgs : status[m] = "dlq" /\ timesProcessed[m] = MaxReceiveCount

====
